---- MODULE Spec2Model ----
(***************************************************************************)
(* Model of app.py: the voice assistant's session loop, its language       *)
(* selection, the capture/transcription function, the AI response function *)
(* and the speech output function.  Texts are sequences of tokens: a token *)
(* is one character, or one opaque chunk of a fixed message.               *)
(***************************************************************************)
EXTENDS Naturals, Sequences, FiniteSets, TLC

\* ------------------------------------------------------------------ bounds
MaxInputLen == 2        \* longest line typed at the main prompt
MaxPromptLen == 2       \* longest transcript the recognizer returns
MaxParts == 2           \* most parts in a structured AI response
MaxBusyPolls == 2       \* most polls for which playback reports busy

\* ------------------------------------------------------------- text helpers
None == "None"                  \* Python None in a string-valued field
NoneText == <<"<None>">>        \* Python None in a text-valued field

Whitespace == {" ", "\t"}

IsSpace(ch) == ch \in Whitespace

RECURSIVE lstrip(_)
lstrip(s) ==
    IF s = <<>> THEN <<>>
    ELSE IF IsSpace(Head(s)) THEN lstrip(Tail(s)) ELSE s

RECURSIVE rstrip(_)
rstrip(s) ==
    IF s = <<>> THEN <<>>
    ELSE IF IsSpace(s[Len(s)]) THEN rstrip(SubSeq(s, 1, Len(s) - 1)) ELSE s

\* str.strip()
strip(s) == rstrip(lstrip(s))

LowerChar(ch) ==
    CASE ch = "Q" -> "q"
      [] ch = "C" -> "c"
      [] ch = "X" -> "x"
      [] OTHER -> ch

RECURSIVE lower(_)
\* str.lower()
lower(s) ==
    IF s = <<>> THEN <<>> ELSE <<LowerChar(Head(s))>> \o lower(Tail(s))

RECURSIVE join(_)
\* " ".join(list)
join(l) ==
    IF l = <<>> THEN <<>>
    ELSE IF Len(l) = 1 THEN l[1]
    ELSE l[1] \o <<" ">> \o join(Tail(l))

\* truth value of a text field: None and "" are falsy
Truthy(t) == t /= NoneText /\ t /= <<>>

SeqsUpTo(S, n) == UNION {[1..k -> S] : k \in 0..n}

\* ------------------------------------------------------- language registry
SUPPORTED_LANGUAGES ==
    [k \in {"1", "2", "3"} |->
        CASE k = "1" -> [name |-> "English (US)", code |-> "en-US", gtts_lang |-> "en"]
          [] k = "2" -> [name |-> "Hindi (India)", code |-> "hi-IN", gtts_lang |-> "hi"]
          [] k = "3" -> [name |-> "Kannada (India)", code |-> "kn-IN", gtts_lang |-> "kn"]]

\* lines typed at the language menu: the keys and some lines that are no key
MenuInputs == {"1", "2", "3", "4", "", " 1", "q"}

\* ------------------------------------------------------------ fixed texts
MSG_UNAVAILABLE == <<"Gemini AI model is not available. Please check your API key and configuration.">>
MSG_NO_INPUT == <<"I didn't receive any input. How can I help you?">>
MSG_UNUSUAL == <<"Sorry, I received an unusual response from Gemini AI.">>
MSG_AI_ERROR == <<"Sorry, I encountered an error while trying to get a response from Gemini AI.">>
MSG_BRAIN_UNAVAILABLE == <<"I'm sorry, my AI brain is currently unavailable.">>
MSG_REPEAT == <<"I didn't quite catch that. Could you please repeat?">>
MSG_NOT_HEARD == <<"I didn't hear anything. Please try speaking.">>

MsgBlocked(reason) ==
    <<"Sorry, your request was blocked by the AI for safety reasons (", reason,
      "). Please try rephrasing.">>

ERR_NO_SPEECH == "No speech detected"
ERR_UNABLE == "Unable to recognize speech."
ERR_API == "API unavailable. Check your internet connection or API quota."
ERR_AMBIENT == "Ambient noise adjustment failed: e"
ERR_LISTEN == "Listening failed: e"
ERR_RECOG == "Speech recognition failed: e"

\* --------------------------------------------------- the remote AI service
BlockReasons == {"SAFETY", "OTHER"}

\* response.prompt_feedback: absent, or present with block_reason unset or set
Feedbacks ==
    {[present |-> FALSE, block_reason |-> None]}
    \cup {[present |-> TRUE, block_reason |-> b] : b \in BlockReasons \cup {None}}

ReplyTexts == {<<>>, <<" ">>, <<" ", "h">>}

Parts == {[has_text |-> FALSE, text |-> <<>>],
          [has_text |-> TRUE, text |-> <<>>],
          [has_text |-> TRUE, text |-> <<"a">>]}

\* model.generate_content(prompt) raised: there is no response object
RaisedResponse ==
    [raises |-> "generate", feedback |-> [present |-> FALSE, block_reason |-> None],
     has_text |-> FALSE, text |-> <<>>, parts |-> <<>>]

\* no call of get_ai_response is in progress
NoResponse ==
    [raises |-> None, feedback |-> [present |-> FALSE, block_reason |-> None],
     has_text |-> FALSE, text |-> <<>>, parts |-> <<>>]

\* what model.generate_content(prompt) can do: raise, or return a response whose
\* text accessor may itself raise
Responses ==
    {RaisedResponse}
    \cup [raises : {"none", "text"},
          feedback : Feedbacks,
          has_text : {FALSE},
          text : {<<>>},
          parts : SeqsUpTo(Parts, MaxParts)]
    \cup [raises : {"none", "text"},
          feedback : Feedbacks,
          has_text : {TRUE},
          text : ReplyTexts,
          parts : SeqsUpTo(Parts, MaxParts)]

all_text_parts(parts) ==
    LET idx == {i \in 1..Len(parts) : parts[i].has_text}
        RECURSIVE pick(_)
        pick(i) == IF i > Len(parts) THEN <<>>
                   ELSE IF i \in idx THEN <<parts[i].text>> \o pick(i + 1)
                   ELSE pick(i + 1)
    IN pick(1)

\* Guard without the check of the model handle
Guard_IgnoresModel(m, prompt) ==
    IF ~Truthy(prompt) THEN "NoInput" ELSE "Call"

\* Guard without the check of the prompt
Guard_IgnoresPrompt(m, prompt) ==
    IF ~m THEN "Unavailable" ELSE "Call"

\* the two early returns of get_ai_response: if not model / if not prompt
Guard(m, prompt) ==
    IF ~m THEN "Unavailable"
    ELSE IF ~Truthy(prompt) THEN "NoInput"
    ELSE "Call"

\* response.prompt_feedback and response.prompt_feedback.block_reason
IsBlocked(resp) ==
    resp.feedback.present /\ resp.feedback.block_reason /= None

\* the try block of get_ai_response once generate_content has been called
read_response(resp) ==
    IF resp.raises = "generate" THEN [reply |-> MSG_AI_ERROR, kind |-> "Failed"]
    ELSE IF IsBlocked(resp)
        THEN [reply |-> MsgBlocked(resp.feedback.block_reason), kind |-> "Blocked"]
    ELSE IF resp.raises = "text" THEN [reply |-> MSG_AI_ERROR, kind |-> "Failed"]
    ELSE IF resp.has_text /\ Truthy(resp.text)
        THEN [reply |-> strip(resp.text), kind |-> "Ok"]
    ELSE IF resp.parts /= <<>> /\ all_text_parts(resp.parts) /= <<>>
        THEN [reply |-> strip(join(all_text_parts(resp.parts))), kind |-> "Ok"]
    ELSE [reply |-> MSG_UNUSUAL, kind |-> "Empty"]

\* ------------------------------------------------------------ environment
\* lines typed at the main prompt
InputChars == {"q", "Q", "c", " ", "x"}

MainInputs == SeqsUpTo(InputChars, MaxInputLen)

\* transcripts recognize_google can return
Transcripts == SeqsUpTo({" ", "h"}, MaxPromptLen)

RecognizeOutcomes ==
    {[kind |-> "text", text |-> t] : t \in Transcripts}
    \cup {[kind |-> k, text |-> NoneText] :
            k \in {"RequestError", "UnknownValueError", "Exception"}}

\* ------------------------------------------------------------------ state
VARIABLES
    pc,                         \* position of the main program
    model,                      \* TRUE iff the global model handle is not None
    current_speech_lang_code,
    current_speech_lang_name,
    current_gtts_lang,
    choice,                     \* select_language's local: the line last typed at the menu
    raw_input,                  \* the line last read at the main prompt
    user_choice,
    mic_open,                   \* the microphone context is entered
    speech_result,
    recognized_text,
    ai_response,
    ai_kind,                    \* which branch of get_ai_response produced ai_response
    response,                   \* get_ai_response's local: what generate_content did
    spc,                        \* position inside speak_text
    text_to_speak,
    pending,                    \* exception in flight while speak_text's finally runs
    mixer_init,                 \* pygame.mixer.get_init()
    file_exists,                \* temp_speech.mp3 exists on disk
    busy_left,                  \* polls for which get_busy() still answers true
    attempt,                    \* iteration of the removal loop
    polled,                     \* polls of this speak_text call that found playback busy
    remove_error,               \* os.remove raised in this speak_text call
    calls,                      \* adapter calls made since the last prompt, in order
    exit_kind,                  \* how the process ended
    interrupted_at,             \* session state in which the first interrupt arrived
    closing_printed             \* "Application closed." was printed

vars == <<pc, model, choice, current_speech_lang_code, current_speech_lang_name,
          current_gtts_lang, raw_input, user_choice, mic_open, speech_result,
          recognized_text, ai_response, ai_kind, response, spc, text_to_speak, pending,
          mixer_init, file_exists, busy_left, attempt, polled, remove_error, calls,
          exit_kind,
          interrupted_at, closing_printed>>

langVars == <<current_speech_lang_code, current_speech_lang_name, current_gtts_lang>>
turnVars == <<speech_result, recognized_text, ai_response, ai_kind, response>>
speakVars == <<spc, text_to_speak, pending, busy_left, attempt, polled, remove_error>>
exitVars == <<exit_kind, interrupted_at, closing_printed>>

NoResult == [success |-> FALSE, error |-> None, transcription |-> NoneText]

\* the session state of the specification's state machine
SessionState ==
    CASE pc = "Startup" -> "Start"
      [] pc = "SelectingLanguage" -> "SelectingLanguage"
      [] pc \in {"Idle", "Dispatch"} -> "Idle"
      [] pc \in {"Listening", "Calibrating", "Capturing"} -> "Listening"
      [] pc \in {"Transcribing", "Routing"} -> "Transcribing"
      [] pc \in {"Responding", "Reading", "Replying"} -> "Responding"
      [] pc = "Speaking" -> "Speaking"
      [] pc = "Terminated" -> "Terminated"
      [] OTHER -> "Called"

\* the while True loop has not been left
running == pc /= "Terminated"

\* the first select_language() call, before the try block
InitialSelection == pc = "SelectingLanguage" /\ current_speech_lang_code = None

Call(op, arg, lang) == [op |-> op, arg |-> arg, lang |-> lang]

Init ==
    /\ pc = "Startup"
    /\ model \in BOOLEAN
    /\ current_speech_lang_code = None
    /\ current_speech_lang_name = None
    /\ current_gtts_lang = None
    /\ choice = None
    /\ raw_input = <<>>
    /\ user_choice = NoneText
    /\ mic_open = FALSE
    /\ speech_result = NoResult
    /\ recognized_text = NoneText
    /\ ai_response = NoneText
    /\ ai_kind = None
    /\ response = NoResponse
    /\ spc = "none"
    /\ text_to_speak = NoneText
    /\ pending = None
    /\ mixer_init = FALSE
    /\ file_exists = FALSE
    /\ busy_left = 0
    /\ attempt = 0
    /\ polled = 0
    /\ remove_error = FALSE
    /\ calls = <<>>
    /\ exit_kind = None
    /\ interrupted_at = None
    /\ closing_printed = FALSE

\* ------------------------------------------------------------ main program
\* except KeyboardInterrupt / finally of the main program, entered with the
\* mixer in state mixerNow: quit the mixer if initialised, print the closing line
Shutdown(kind, mixerNow) ==
    /\ pc' = "Terminated"
    /\ exit_kind' = kind
    /\ IF mixerNow
         THEN \E quit_ok \in BOOLEAN :
                /\ mixer_init' = ~quit_ok
                /\ closing_printed' = quit_ok
         ELSE /\ mixer_init' = FALSE
              /\ closing_printed' = TRUE

\* Startup going on to the language selection after the fatal message
Startup_ContinuesAfterFatal ==
    /\ pc = "Startup"
    /\ pc' = "SelectingLanguage"
    /\ \E ok \in BOOLEAN : exit_kind' = IF ok THEN exit_kind ELSE "fatal"
    /\ UNCHANGED <<model, choice, langVars, raw_input, user_choice, mic_open, turnVars,
                   speakVars, mixer_init, file_exists, calls, interrupted_at,
                   closing_printed>>

\* r = sr.Recognizer(); mic = sr.Microphone(); on an exception the fatal
\* message and exit()
Startup ==
    /\ pc = "Startup"
    /\ \E ok \in BOOLEAN :
         IF ok THEN /\ pc' = "SelectingLanguage"
                    /\ exit_kind' = exit_kind
               ELSE /\ pc' = "Terminated"
                    /\ exit_kind' = "fatal"
    /\ UNCHANGED <<model, choice, langVars, raw_input, user_choice, mic_open, turnVars,
                   speakVars, mixer_init, file_exists, calls, interrupted_at,
                   closing_printed>>

\* if choice in SUPPORTED_LANGUAGES
IsKey(line) == line \in DOMAIN SUPPORTED_LANGUAGES

\* Selected with the synthesis language fixed to English
Selected_EnglishVoice(key) ==
    [SUPPORTED_LANGUAGES[key] EXCEPT !.gtts_lang = "en"]

\* Selected returning the first entry whatever the key
Selected_FirstEntry(key) == SUPPORTED_LANGUAGES["1"]

\* return SUPPORTED_LANGUAGES[choice]
Selected(key) == SUPPORTED_LANGUAGES[key]

\* select_language() and the assignment of its result by the caller
select_language ==
    /\ pc = "SelectingLanguage"
    /\ \E line \in MenuInputs :
         /\ choice' = line
         /\ IF IsKey(line)
              THEN /\ current_speech_lang_code' = Selected(line).code
                   /\ current_speech_lang_name' = Selected(line).name
                   /\ current_gtts_lang' = Selected(line).gtts_lang
                   /\ pc' = "Idle"
              ELSE UNCHANGED <<pc, langVars>>
    /\ UNCHANGED <<model, raw_input, user_choice, mic_open, turnVars, speakVars,
                   mixer_init, file_exists, calls, exitVars>>

\* input(...).strip().lower() at the top of the loop.  Nothing reads the values
\* the previous iteration left in the turn's variables before they are assigned
\* again: the model starts every iteration from their initial values
IdleRead ==
    /\ pc = "Idle"
    /\ \E raw \in MainInputs :
         /\ raw_input' = raw
         /\ user_choice' = lower(strip(raw))
    /\ calls' = <<>>
    /\ speech_result' = NoResult
    /\ recognized_text' = NoneText
    /\ ai_response' = NoneText
    /\ ai_kind' = None
    /\ response' = NoResponse
    /\ text_to_speak' = NoneText
    /\ busy_left' = 0
    /\ attempt' = 0
    /\ polled' = 0
    /\ remove_error' = FALSE
    /\ pc' = "Dispatch"
    /\ UNCHANGED <<model, choice, langVars, mic_open, spc, pending, mixer_init,
                   file_exists, exitVars>>

\* DispatchTarget without the quit branch
DispatchTarget_NoQuit(command) ==
    IF command = <<"c">> THEN "SelectingLanguage" ELSE "Listening"

\* DispatchTarget without the change-language branch
DispatchTarget_NoChange(command) ==
    IF command = <<"q">> THEN "Terminated" ELSE "Listening"

\* the if / elif on user_choice: where the loop goes next
DispatchTarget(command) ==
    IF command = <<"q">> THEN "Terminated"
    ELSE IF command = <<"c">> THEN "SelectingLanguage"
    ELSE "Listening"

\* the branch on user_choice; the line read is not used after this branch
Dispatch ==
    /\ pc = "Dispatch"
    /\ IF DispatchTarget(user_choice) = "Terminated"
         THEN /\ Shutdown("quit", mixer_init)
              /\ UNCHANGED <<raw_input, user_choice, interrupted_at>>
         ELSE /\ pc' = DispatchTarget(user_choice)
              /\ raw_input' = <<>>
              /\ user_choice' = NoneText
              /\ UNCHANGED <<mixer_init, exitVars>>
    /\ UNCHANGED <<model, choice, langVars, mic_open, turnVars, speakVars, file_exists, calls>>

\* --------------------------------------------- recognize_speech_from_mic
\* with microphone as source: entering the context opens the device
OpenMic ==
    /\ pc = "Listening"
    /\ \E ok \in BOOLEAN :
         IF ok THEN /\ mic_open' = TRUE
                    /\ pc' = "Calibrating"
                    /\ UNCHANGED <<mixer_init, exit_kind, closing_printed>>
               ELSE /\ mic_open' = FALSE
                    /\ Shutdown("uncaught", mixer_init)
    /\ UNCHANGED <<model, choice, langVars, raw_input, user_choice, turnVars, speakVars,
                   file_exists, calls, interrupted_at>>

\* Calibrate returning the failure without leaving the microphone context
Calibrate_KeepsMicOpen ==
    /\ pc = "Calibrating"
    /\ \E ok \in BOOLEAN :
         IF ok THEN /\ pc' = "Capturing"
                    /\ UNCHANGED speech_result
               ELSE /\ speech_result' = [success |-> FALSE, error |-> ERR_AMBIENT,
                                         transcription |-> NoneText]
                    /\ pc' = "Routing"
    /\ UNCHANGED <<model, choice, langVars, raw_input, user_choice, mic_open,
                   recognized_text, ai_response, ai_kind, response, speakVars,
                   mixer_init, file_exists, calls, exitVars>>

\* recognizer.adjust_for_ambient_noise(source, duration=1)
Calibrate ==
    /\ pc = "Calibrating"
    /\ \E ok \in BOOLEAN :
         IF ok THEN /\ pc' = "Capturing"
                    /\ UNCHANGED <<mic_open, speech_result>>
               ELSE /\ speech_result' = [success |-> FALSE, error |-> ERR_AMBIENT,
                                         transcription |-> NoneText]
                    /\ mic_open' = FALSE
                    /\ pc' = "Routing"
    /\ UNCHANGED <<model, choice, langVars, raw_input, user_choice, recognized_text,
                   ai_response, ai_kind, response, speakVars, mixer_init, file_exists, calls,
                   exitVars>>

\* recognizer.listen(source, timeout=7, phrase_time_limit=20); the with block ends
Listen ==
    /\ pc = "Capturing"
    /\ calls' = Append(calls, Call("listen", <<>>, None))
    /\ mic_open' = FALSE
    /\ \E outcome \in {"audio", "WaitTimeoutError", "Exception"} :
         CASE outcome = "audio" ->
                /\ pc' = "Transcribing"
                /\ UNCHANGED speech_result
           [] outcome = "WaitTimeoutError" ->
                /\ speech_result' = [success |-> TRUE, error |-> ERR_NO_SPEECH,
                                     transcription |-> NoneText]
                /\ pc' = "Routing"
           [] OTHER ->
                /\ speech_result' = [success |-> FALSE, error |-> ERR_LISTEN,
                                     transcription |-> NoneText]
                /\ pc' = "Routing"
    /\ UNCHANGED <<model, choice, langVars, raw_input, user_choice, recognized_text,
                   ai_response, ai_kind, response, speakVars, mixer_init, file_exists,
                   exitVars>>

\* recognizer.recognize_google(audio, language=language_code) and its handlers
Recognize ==
    /\ pc = "Transcribing"
    /\ calls' = Append(calls, Call("recognize_google", <<>>, current_speech_lang_code))
    /\ \E outcome \in RecognizeOutcomes :
         speech_result' =
            CASE outcome.kind = "text" ->
                   [success |-> TRUE, error |-> None, transcription |-> outcome.text]
              [] outcome.kind = "RequestError" ->
                   [success |-> FALSE, error |-> ERR_API, transcription |-> NoneText]
              [] outcome.kind = "UnknownValueError" ->
                   [success |-> TRUE, error |-> ERR_UNABLE, transcription |-> NoneText]
              [] OTHER ->
                   [success |-> FALSE, error |-> ERR_RECOG, transcription |-> NoneText]
    /\ pc' = "Routing"
    /\ UNCHANGED <<model, choice, langVars, raw_input, user_choice, mic_open, recognized_text,
                   ai_response, ai_kind, response, speakVars, mixer_init, file_exists,
                   exitVars>>

\* ------------------------------------------------------- the loop's routing
\* a call speak_text(text, current_gtts_lang) from the loop
CallSpeak(text) ==
    /\ calls' = Append(calls, Call("speak_text", text, current_gtts_lang))
    /\ text_to_speak' = text
    /\ pc' = "Speaking"
    /\ spc' = "entry"
    /\ polled' = 0
    /\ remove_error' = FALSE

\* FeedbackText with spoken feedback for every error
FeedbackText_EveryError(result) ==
    IF result.error = ERR_UNABLE THEN MSG_REPEAT ELSE MSG_NOT_HEARD

\* the text the loop speaks for a result that is not a recognised transcript
FeedbackText(result) ==
    IF result.error = ERR_UNABLE THEN MSG_REPEAT
    ELSE IF result.error = ERR_NO_SPEECH THEN MSG_NOT_HEARD
    ELSE NoneText

\* Recognised with the transcript tested against None only
Recognised_AcceptsEmpty(result) ==
    result.success /\ result.transcription /= NoneText

\* Recognised without the test of the transcript
Recognised_IgnoresText(result) == result.success

\* if speech_result["success"] and recognized_text
Recognised(result) == result.success /\ Truthy(result.transcription)

\* if speech_result: ... the branch on success, transcription, model and error
Route ==
    /\ pc = "Routing"
    /\ recognized_text' = speech_result.transcription
    /\ IF Recognised(speech_result)
         THEN IF model
                THEN /\ pc' = "Responding"
                     /\ UNCHANGED <<calls, text_to_speak, spc, polled, remove_error>>
                ELSE CallSpeak(MSG_BRAIN_UNAVAILABLE)
         ELSE IF speech_result.error /= None /\ FeedbackText(speech_result) /= NoneText
                THEN CallSpeak(FeedbackText(speech_result))
                ELSE /\ pc' = "Idle"
                     /\ UNCHANGED <<calls, text_to_speak, spc, polled, remove_error>>
    /\ UNCHANGED <<model, choice, langVars, raw_input, user_choice, mic_open, speech_result,
                   ai_response, ai_kind, response, pending, busy_left, attempt, mixer_init,
                   file_exists, exitVars>>

\* get_ai_response(prompt) up to the service call: the two early returns, else
\* model.generate_content(prompt); control goes to readPc or back to returnPc
GetAiResponseEnter(prompt, readPc, returnPc) ==
    CASE Guard(model, prompt) = "Unavailable" ->
           /\ ai_response' = MSG_UNAVAILABLE
           /\ ai_kind' = "Unavailable"
           /\ calls' = Append(calls, Call("get_ai_response", prompt, None))
           /\ pc' = returnPc
           /\ UNCHANGED response
      [] Guard(model, prompt) = "NoInput" ->
           /\ ai_response' = MSG_NO_INPUT
           /\ ai_kind' = "NoInput"
           /\ calls' = Append(calls, Call("get_ai_response", prompt, None))
           /\ pc' = returnPc
           /\ UNCHANGED response
      [] OTHER ->
           /\ \E resp \in Responses : response' = resp
           /\ calls' = calls \o <<Call("get_ai_response", prompt, None),
                                  Call("generate_content", prompt, None)>>
           /\ pc' = readPc
           /\ UNCHANGED <<ai_response, ai_kind>>

\* the rest of get_ai_response's try block and its except handler
GetAiResponseRead(returnPc) ==
    /\ ai_response' = read_response(response).reply
    /\ ai_kind' = read_response(response).kind
    /\ response' = NoResponse
    /\ pc' = returnPc

\* ai_response = get_ai_response(recognized_text): to the service call
Respond ==
    /\ pc = "Responding"
    /\ GetAiResponseEnter(recognized_text, "Reading", "Replying")
    /\ UNCHANGED <<model, choice, langVars, raw_input, user_choice, mic_open, speech_result,
                   recognized_text, speakVars, mixer_init, file_exists, exitVars>>

\* ai_response = get_ai_response(recognized_text): from the service's answer
ReadResponse ==
    /\ pc = "Reading"
    /\ GetAiResponseRead("Replying")
    /\ UNCHANGED <<model, choice, langVars, raw_input, user_choice, mic_open, speech_result,
                   recognized_text, speakVars, mixer_init, file_exists, calls,
                   exitVars>>

\* speak_text(ai_response, current_gtts_lang)
SpeakReply ==
    /\ pc = "Replying"
    /\ CallSpeak(ai_response)
    /\ UNCHANGED <<model, choice, langVars, raw_input, user_choice, mic_open, turnVars,
                   pending, busy_left, attempt, mixer_init, file_exists, exitVars>>


\* ------------------------------------------------------------- speak_text
\* speak_text is left with the mixer in state mixerNow: it returns to the loop,
\* or the KeyboardInterrupt its finally block deferred reaches the main handler
SpeakExit(mixerNow) ==
    /\ spc' = "none"
    /\ pending' = None
    /\ IF pending = "KeyboardInterrupt"
         THEN Shutdown("interrupt", mixerNow)
         ELSE /\ pc' = "Idle"
              /\ mixer_init' = mixerNow
              /\ UNCHANGED <<exit_kind, closing_printed>>

\* if not text_to_speak or not isinstance(text_to_speak, str): return
SpeakEntry ==
    /\ pc = "Speaking" /\ spc = "entry"
    /\ IF Truthy(text_to_speak)
         THEN /\ spc' = "synth"
              /\ pc' = pc
         ELSE /\ spc' = "none"
              /\ pc' = "Idle"
    /\ UNCHANGED <<model, choice, langVars, raw_input, user_choice, mic_open, turnVars,
                   text_to_speak, pending, busy_left, attempt, polled, remove_error, mixer_init,
                   file_exists, calls, exitVars>>

\* gTTS(text=..., lang=..., slow=False); tts.save(temp_audio_file); an exception
\* (ValueError or other) is handled and control reaches the finally block
Synthesize ==
    /\ pc = "Speaking" /\ spc = "synth"
    /\ \E outcome \in {"saved", "raises", "raises_after_write"} :
         /\ file_exists' = (file_exists \/ outcome /= "raises")
         /\ spc' = IF outcome = "saved" THEN "init" ELSE "finally_mixer"
    /\ UNCHANGED <<pc, model, choice, langVars, raw_input, user_choice, mic_open, turnVars,
                   text_to_speak, pending, busy_left, attempt, polled, remove_error, mixer_init, calls,
                   exitVars>>

\* pygame.mixer.init()
MixerInit ==
    /\ pc = "Speaking" /\ spc = "init"
    /\ \E ok \in BOOLEAN :
         /\ mixer_init' = (mixer_init \/ ok)
         /\ spc' = IF ok THEN "load" ELSE "finally_mixer"
    /\ UNCHANGED <<pc, model, choice, langVars, raw_input, user_choice, mic_open, turnVars,
                   text_to_speak, pending, busy_left, attempt, polled, remove_error, file_exists, calls,
                   exitVars>>

\* pygame.mixer.music.load(temp_audio_file)
MusicLoad ==
    /\ pc = "Speaking" /\ spc = "load"
    /\ \E ok \in BOOLEAN : spc' = IF ok THEN "play" ELSE "finally_mixer"
    /\ UNCHANGED <<pc, model, choice, langVars, raw_input, user_choice, mic_open, turnVars,
                   text_to_speak, pending, busy_left, attempt, polled, remove_error, mixer_init,
                   file_exists, calls, exitVars>>

\* pygame.mixer.music.play(): playback then reports busy for some polls
MusicPlay ==
    /\ pc = "Speaking" /\ spc = "play"
    /\ \E ok \in BOOLEAN :
         IF ok THEN /\ \E n \in 0..MaxBusyPolls : busy_left' = n
                    /\ spc' = "poll"
               ELSE /\ spc' = "finally_mixer"
                    /\ UNCHANGED busy_left
    /\ UNCHANGED <<pc, model, choice, langVars, raw_input, user_choice, mic_open, turnVars,
                   text_to_speak, pending, attempt, polled, remove_error, mixer_init,
                   file_exists, calls, exitVars>>

\* while pygame.mixer.music.get_busy(): tick; then time.sleep(0.5)
Poll ==
    /\ pc = "Speaking" /\ spc = "poll"
    /\ IF busy_left > 0
         THEN /\ busy_left' = busy_left - 1
              /\ polled' = polled + 1
              /\ spc' = spc
         ELSE /\ spc' = "finally_mixer"
              /\ UNCHANGED <<busy_left, polled>>
    /\ UNCHANGED <<pc, model, choice, langVars, raw_input, user_choice, mic_open, turnVars,
                   text_to_speak, pending, attempt, remove_error, mixer_init,
                   file_exists, calls, exitVars>>

\* finally: if pygame.mixer.get_init(): music.stop(); mixer.quit().  Neither call
\* is guarded: an error raised by one leaves speak_text and the loop's try block
FinallyMixer ==
    /\ pc = "Speaking" /\ spc = "finally_mixer"
    /\ IF mixer_init
         THEN \E outcome \in {"ok", "stop_raises", "quit_raises"} :
                IF outcome = "ok"
                  THEN /\ mixer_init' = FALSE
                       /\ busy_left' = 0
                       /\ spc' = "finally_file"
                       /\ UNCHANGED <<pc, pending, exit_kind, closing_printed>>
                  ELSE /\ busy_left' = IF outcome = "stop_raises" THEN busy_left ELSE 0
                       /\ spc' = "none"
                       /\ pending' = None
                       /\ Shutdown("uncaught", TRUE)
         ELSE /\ spc' = "finally_file"
              /\ UNCHANGED <<pc, pending, busy_left, mixer_init, exit_kind,
                             closing_printed>>
    /\ UNCHANGED <<model, choice, langVars, raw_input, user_choice, mic_open, turnVars,
                   text_to_speak, attempt, polled, remove_error, file_exists, calls,
                   interrupted_at>>

\* finally: if os.path.exists(temp_audio_file): enter the removal loop
FinallyFile ==
    /\ pc = "Speaking" /\ spc = "finally_file"
    /\ IF file_exists
         THEN /\ attempt' = 0
              /\ spc' = "remove"
              /\ UNCHANGED <<pc, pending, mixer_init, exit_kind, closing_printed>>
         ELSE /\ SpeakExit(mixer_init)
              /\ UNCHANGED attempt
    /\ UNCHANGED <<model, choice, langVars, raw_input, user_choice, mic_open, turnVars,
                   text_to_speak, busy_left, polled, remove_error, file_exists, calls,
                   interrupted_at>>

\* for _ in range(3)
RemoveAttempts == 3

\* MayRemove with the test inverted
MayRemove_Inverted(mixer, busy) == mixer /\ busy > 0

\* if not pygame.mixer.get_init() or not pygame.mixer.music.get_busy()
MayRemove(mixer, busy) == ~mixer \/ busy = 0

\* for _ in range(3): remove the file unless the mixer is initialised and busy,
\* else sleep and try again; an error raised by os.remove is logged and ends the
\* loop; after three busy rounds the file is left with a warning
Remove ==
    /\ pc = "Speaking" /\ spc = "remove"
    /\ IF attempt < RemoveAttempts
         THEN IF MayRemove(mixer_init, busy_left)
                THEN /\ \E removed \in BOOLEAN :
                          /\ file_exists' = ~removed
                          /\ remove_error' = ~removed
                     /\ SpeakExit(mixer_init)
                     /\ UNCHANGED <<attempt, busy_left>>
                ELSE /\ attempt' = attempt + 1
                     /\ busy_left' = IF busy_left > 0 THEN busy_left - 1 ELSE 0
                     /\ UNCHANGED <<pc, spc, pending, mixer_init, file_exists,
                                    remove_error, exit_kind, closing_printed>>
         ELSE /\ SpeakExit(mixer_init)
              /\ UNCHANGED <<attempt, busy_left, file_exists, remove_error>>
    /\ UNCHANGED <<model, choice, langVars, raw_input, user_choice, mic_open, turnVars,
                   text_to_speak, polled, calls, interrupted_at>>

\* -------------------------------------------------------------- interrupt
TryBody == {"synth", "init", "load", "play", "poll"}

\* KeyboardInterrupt.  Outside the try block of the main program nothing
\* handles it; inside speak_text's try body the finally block runs first;
\* everywhere else in the loop the main handler runs at once
Interrupt ==
    /\ pc \notin {"Terminated"}
    /\ interrupted_at' = IF interrupted_at = None THEN SessionState ELSE interrupted_at
    /\ IF pc = "Startup" \/ InitialSelection
         THEN /\ pc' = "Terminated"
              /\ exit_kind' = "uncaught"
              /\ UNCHANGED <<mic_open, spc, text_to_speak, pending, busy_left, attempt,
                             mixer_init, file_exists, closing_printed>>
         ELSE IF pc = "Speaking" /\ spc \in TryBody
           THEN /\ pending' = "KeyboardInterrupt"
                /\ spc' = "finally_mixer"
                /\ IF spc = "synth"
                     THEN \E written \in BOOLEAN : file_exists' = (file_exists \/ written)
                     ELSE UNCHANGED file_exists
                /\ UNCHANGED <<pc, mic_open, text_to_speak, busy_left, attempt,
                               mixer_init, exit_kind, closing_printed>>
           ELSE /\ mic_open' = FALSE
                /\ spc' = "none"
                /\ pending' = None
                /\ Shutdown("interrupt", mixer_init)
                /\ UNCHANGED <<text_to_speak, busy_left, attempt, file_exists>>
    /\ response' = NoResponse
    /\ UNCHANGED <<model, choice, langVars, raw_input, user_choice, speech_result,
                   recognized_text, ai_response, ai_kind, polled, remove_error,
                   calls>>

\* ---------------------------------------------------------- specification
Next ==
    \/ Startup
    \/ select_language
    \/ IdleRead
    \/ Dispatch
    \/ OpenMic
    \/ Calibrate
    \/ Listen
    \/ Recognize
    \/ Route
    \/ Respond
    \/ ReadResponse
    \/ SpeakReply
    \/ SpeakEntry
    \/ Synthesize
    \/ MixerInit
    \/ MusicLoad
    \/ MusicPlay
    \/ Poll
    \/ FinallyMixer
    \/ FinallyFile
    \/ Remove
    \/ Interrupt

Spec == Init /\ [][Next]_vars


\* the steps of the loop that wait for no input of the user: the branch on the
\* command and the calls of a turn, each of which returns or raises
TurnStep ==
    \/ Dispatch \/ OpenMic \/ Calibrate \/ Listen \/ Recognize \/ Route
    \/ Respond \/ ReadResponse \/ SpeakReply \/ SpeakEntry \/ Synthesize
    \/ MixerInit \/ MusicLoad \/ MusicPlay \/ Poll \/ FinallyMixer
    \/ FinallyFile \/ Remove

\* the program when every call of a turn comes back; the user may wait at a
\* prompt for ever and may interrupt or not
SpecLive == Spec /\ WF_vars(TurnStep)

\* ------------------------------------- get_ai_response called on its own
\* get_ai_response as a function of its inputs: any state of the model handle,
\* any prompt, any behaviour of the service
Prompts == Transcripts

CalledPcs == {"Call", "CallReading", "Returned"}

InitAI ==
    \/ Init
    \/ /\ pc = "Call"
       /\ model \in BOOLEAN
       /\ recognized_text \in Prompts
       /\ current_speech_lang_code = None
       /\ current_speech_lang_name = None
       /\ current_gtts_lang = None
       /\ choice = None
       /\ raw_input = <<>>
       /\ user_choice = NoneText
       /\ mic_open = FALSE
       /\ speech_result = NoResult
       /\ ai_response = NoneText
       /\ ai_kind = None
       /\ response = NoResponse
       /\ spc = "none"
       /\ text_to_speak = NoneText
       /\ pending = None
       /\ mixer_init = FALSE
       /\ file_exists = FALSE
       /\ busy_left = 0
       /\ attempt = 0
       /\ polled = 0
       /\ remove_error = FALSE
    /\ polled = 0
    /\ remove_error = FALSE
       /\ calls = <<>>
       /\ exit_kind = None
       /\ interrupted_at = None
       /\ closing_printed = FALSE

CallGetAiResponse ==
    /\ pc = "Call"
    /\ GetAiResponseEnter(recognized_text, "CallReading", "Returned")
    /\ UNCHANGED <<model, choice, langVars, raw_input, user_choice, mic_open, speech_result,
                   recognized_text, speakVars, mixer_init, file_exists, exitVars>>

CallReadResponse ==
    /\ pc = "CallReading"
    /\ GetAiResponseRead("Returned")
    /\ UNCHANGED <<model, choice, langVars, raw_input, user_choice, mic_open, speech_result,
                   recognized_text, speakVars, mixer_init, file_exists, calls,
                   exitVars>>

NextAI ==
    \/ CallGetAiResponse
    \/ CallReadResponse
    \/ (pc \notin CalledPcs /\ Next)

SpecAI == InitAI /\ [][NextAI]_vars


\* ------------------------------------------------------------- properties
NoServiceCall == \A i \in 1..Len(calls) : calls[i].op /= "generate_content"

CountOp(op) == Cardinality({i \in 1..Len(calls) : calls[i].op = op})

\* C1: when the line read at the prompt is 'q' after strip() and lower(), the
\* loop ends; once it has ended it never runs again and no capture,
\* transcription, AI or speech call is made any more
C1_QuitIsFinal ==
    [][ /\ (pc = "Dispatch" /\ lower(strip(raw_input)) = <<"q">>)
            => (pc' = "Terminated" /\ calls' = <<>>)
        /\ ~running => (~running' /\ calls' = calls) ]_vars

C1_Witness ==
    /\ pc = "Terminated" /\ exit_kind = "quit"
    /\ raw_input = <<" ", "Q">> /\ user_choice = <<"q">>
    /\ calls = <<>> /\ closing_printed

\* C2 (as claimed): an interrupt in any session state from SelectingLanguage
\* (the initial selection included) to Speaking ends the session with the
\* shutdown of a normal quit: mixer released, temp_speech.mp3 removed if
\* present, closing message printed
C2_InterruptRunsShutdown ==
    (pc = "Terminated"
       /\ interrupted_at \in {"SelectingLanguage", "Idle", "Listening",
                              "Transcribing", "Responding", "Speaking"})
      => (closing_printed /\ ~mixer_init /\ ~file_exists)

\* C3: with the model handle None, get_ai_response answers every prompt with
\* the Unavailable reply and never calls the service; the loop, for every
\* recognised transcript, goes on to speak the fixed "AI brain unavailable"
\* message without calling get_ai_response or the service
C3_UnavailableWithoutModel ==
    /\ [](~model =>
            /\ NoServiceCall
            /\ pc = "Returned" =>
                 /\ ai_response = MSG_UNAVAILABLE
                 /\ calls = <<Call("get_ai_response", recognized_text, None)>>
            /\ (pc \notin CalledPcs /\ Truthy(recognized_text)) =>
                 /\ text_to_speak = MSG_BRAIN_UNAVAILABLE
                 /\ calls = <<Call("listen", <<>>, None),
                              Call("recognize_google", <<>>, current_speech_lang_code),
                              Call("speak_text", MSG_BRAIN_UNAVAILABLE, current_gtts_lang)>>)
    /\ [][ (~model /\ pc = "Routing" /\ speech_result.success
              /\ Truthy(speech_result.transcription))
            => \/ pc' = "Speaking"
               \/ (pc' = "Terminated" /\ exit_kind' = "interrupt") ]_vars

C3_Witness ==
    /\ ~model /\ pc = "Idle" /\ Truthy(recognized_text)
    /\ text_to_speak = MSG_BRAIN_UNAVAILABLE
    /\ CountOp("speak_text") = 1

\* C4 (as claimed): for every prompt that is empty or only whitespace,
\* get_ai_response yields the canned reply and makes no call to the service
C4_BlankPromptShortCircuits ==
    (pc = "Returned" /\ strip(recognized_text) = <<>>)
      => (ai_response = MSG_NO_INPUT /\ NoServiceCall)

\* C4 (amended): with the model handle initialised, the empty prompt yields the
\* canned reply with no call to the service, and every other prompt, one of
\* whitespace only included, is sent to the service exactly once
C4_EmptyPromptShortCircuits ==
    (pc = "Returned" /\ model)
      => IF recognized_text = <<>>
           THEN ai_response = MSG_NO_INPUT /\ NoServiceCall
           ELSE calls = <<Call("get_ai_response", recognized_text, None),
                          Call("generate_content", recognized_text, None)>>

C4_Witness ==
    /\ pc = "Returned" /\ model /\ recognized_text = <<>>
    /\ ai_response = MSG_NO_INPUT /\ ai_kind = "NoInput"


\* the calls of a turn that recognised a transcript and asked the AI service
FullTurnCalls ==
    <<Call("listen", <<>>, None),
      Call("recognize_google", <<>>, current_speech_lang_code),
      Call("get_ai_response", speech_result.transcription, None),
      Call("generate_content", speech_result.transcription, None),
      Call("speak_text", ai_response, current_gtts_lang)>>

\* speak_text was called in this turn and the loop is in it or back at the prompt
SpokenOrSpeaking == pc \in {"Speaking", "Idle"} /\ CountOp("speak_text") > 0

\* the block signal decides the reply whatever the text fields hold, and the
\* loop passes that reply to speak_text once
C5_BlockedReplyIsSpoken ==
    /\ [][ (pc \in {"Reading", "CallReading"} /\ IsBlocked(response)
              /\ pc' \in {"Replying", "Returned"})
            => ai_response' = MsgBlocked(response.feedback.block_reason) ]_vars
    /\ []((SpokenOrSpeaking /\ ai_kind = "Blocked")
            => (calls = FullTurnCalls /\ text_to_speak = ai_response
                  /\ \E b \in BlockReasons : ai_response = MsgBlocked(b)))

\* C5 (as claimed): a safety block is detected before any text is read and
\* gives the Blocked reply with its reason; the loop makes exactly one
\* speak_text call with that reply and returns to Idle without raising
C5_BlockedTurnReturnsToIdle ==
    /\ C5_BlockedReplyIsSpoken
    /\ [][ (pc = "Speaking" /\ ai_kind = "Blocked" /\ pc' /= "Speaking")
            => (pc' = "Idle" \/ interrupted_at' /= None) ]_vars

C7_SpeakNeverPropagates ==
    [][ (pc = "Speaking" /\ pc' /= "Speaking")
          => (pc' = "Idle" \/ interrupted_at' /= None) ]_vars

\* the unknown-value error gives the "Unable to recognize speech." result and
\* the loop answers it with one speak_text call, the retry prompt, and no call
\* to get_ai_response
C8_UnknownValueIsAnswered ==
    /\ [][ (pc = "Transcribing" /\ pc' = "Routing"
              /\ speech_result'.error = ERR_UNABLE)
            => speech_result' = [success |-> TRUE, error |-> ERR_UNABLE,
                                 transcription |-> NoneText] ]_vars
    /\ []((pc \in {"Speaking", "Idle"} /\ speech_result.error = ERR_UNABLE)
            => /\ calls = <<Call("listen", <<>>, None),
                            Call("recognize_google", <<>>, current_speech_lang_code),
                            Call("speak_text", MSG_REPEAT, current_gtts_lang)>>
               /\ text_to_speak = MSG_REPEAT)

\* C8 (as claimed): on the recognizer's unknown-value error the loop makes
\* exactly one speak_text call, with the retry prompt, makes no AI call, and
\* returns to Idle
C8_UnknownValueTurnReturnsToIdle ==
    /\ C8_UnknownValueIsAnswered
    /\ [][ (pc = "Speaking" /\ speech_result.error = ERR_UNABLE /\ pc' /= "Speaking")
            => (pc' = "Idle" \/ interrupted_at' /= None) ]_vars

\* a turn with audio, a non-empty transcript and the model available calls the
\* recognizer, get_ai_response and speak_text once each, in that order, with
\* the current locales, the transcript and the reply
C9_FullTurnCallsInOrder ==
    (SpokenOrSpeaking /\ model /\ speech_result.success
        /\ Truthy(speech_result.transcription))
      => (calls = FullTurnCalls /\ text_to_speak = ai_response
            /\ recognized_text = speech_result.transcription)

\* C9 (as claimed): such a turn makes those calls and then returns to Idle
C9_FullTurnReturnsToIdle ==
    /\ []C9_FullTurnCallsInOrder
    /\ [][ (pc = "Speaking" /\ model /\ Truthy(recognized_text) /\ pc' /= "Speaking")
            => (pc' = "Idle" \/ interrupted_at' /= None) ]_vars

InLoop ==
    pc \in {"Idle", "Dispatch", "Listening", "Calibrating", "Capturing",
            "Transcribing", "Routing", "Responding", "Reading", "Replying",
            "Speaking"}

currentLanguage ==
    [name |-> current_speech_lang_name, code |-> current_speech_lang_code,
     gtts_lang |-> current_gtts_lang]

InRegistry(lang) == \E k \in DOMAIN SUPPORTED_LANGUAGES : SUPPORTED_LANGUAGES[k] = lang

\* C10: from the first completed selection on, the three language variables
\* together are one entry of SUPPORTED_LANGUAGES, and they change only in the
\* step that completes a language selection
C10_LanguageInRegistry ==
    /\ []((InLoop \/ current_speech_lang_code /= None
             \/ current_speech_lang_name /= None \/ current_gtts_lang /= None)
            => InRegistry(currentLanguage))
    /\ [][ currentLanguage' /= currentLanguage
            => (pc = "SelectingLanguage" /\ pc' = "Idle"
                  /\ InRegistry(currentLanguage')) ]_vars

C10_Witness ==
    /\ pc = "Idle" /\ current_speech_lang_code = "kn-IN"
    /\ current_gtts_lang = "kn" /\ CountOp("speak_text") = 1

\* a step taken by the main handler of KeyboardInterrupt
InterruptedStep == pc' = "Terminated" /\ exit_kind' = "interrupt"

\* select_language() called from the loop, after the 'c' command
Reselecting == pc = "SelectingLanguage" /\ ~InitialSelection

\* C11: for every line read at the main prompt the loop branches on the line
\* stripped and lower-cased: 'q' ends the loop, 'c' goes to the language
\* selection and from there back to the prompt with no capture, AI or speech
\* call, and every other line, the empty one included, starts listening
C11_DispatchOnNormalisedInput ==
    /\ [][ pc = "Dispatch" =>
             \/ InterruptedStep
             \/ pc' = (IF lower(strip(raw_input)) = <<"q">> THEN "Terminated"
                       ELSE IF lower(strip(raw_input)) = <<"c">>
                         THEN "SelectingLanguage"
                       ELSE "Listening") ]_vars
    /\ [](Reselecting => calls = <<>>)
    /\ [][ Reselecting =>
             \/ InterruptedStep
             \/ (pc' \in {"SelectingLanguage", "Idle"} /\ calls' = <<>>) ]_vars

C11_Witness ==
    /\ Reselecting /\ calls = <<>>
    /\ current_speech_lang_code = "hi-IN" /\ CountOp("listen") = 0

\* C12: select_language returns only for a line that is a key of
\* SUPPORTED_LANGUAGES, and then with the entry stored under that key; every
\* other line leaves the selection pending and the current language as it was,
\* and the prompt is shown again, any number of times
C12_SelectReturnsOnlyOnKey ==
    /\ [][ pc = "SelectingLanguage" =>
             \/ pc' = "Terminated"
             \/ IF choice' \in DOMAIN SUPPORTED_LANGUAGES
                  THEN pc' = "Idle" /\ currentLanguage' = SUPPORTED_LANGUAGES[choice']
                  ELSE /\ pc' = "SelectingLanguage"
                       /\ currentLanguage' = currentLanguage
                       /\ calls' = calls ]_vars
    /\ [](pc = "SelectingLanguage" => ENABLED select_language)

C12_Witness ==
    /\ pc = "SelectingLanguage" /\ choice = " 1"
    /\ current_speech_lang_code = "hi-IN" /\ current_gtts_lang = "hi"

\* C13: when the initialisation of the recognizer and microphone fails, the
\* process prints the fatal message and ends at once: no language is ever
\* selected, the loop is never entered, and no capture, transcription, AI or
\* speech call is made
C13_StartupFailureExits ==
    /\ [][ pc = "Startup" =>
             \/ pc' = "SelectingLanguage" /\ exit_kind' = None
             \/ pc' = "Terminated" /\ exit_kind' \in {"fatal", "uncaught"} ]_vars
    /\ [](exit_kind = "fatal" =>
             /\ pc = "Terminated"
             /\ calls = <<>>
             /\ choice = None
             /\ current_speech_lang_code = None
             /\ ~mic_open /\ ~mixer_init /\ spc = "none")

C13_Witness ==
    /\ pc = "Terminated" /\ exit_kind = "fatal"
    /\ calls = <<>> /\ choice = None /\ interrupted_at = None

\* the errors recognize_speech_from_mic reports with success False
FailureErrors == {ERR_AMBIENT, ERR_LISTEN, ERR_API, ERR_RECOG}

\* no call of speak_text, get_ai_response or the AI service in this turn
NoSpeechNoAiCall ==
    \A i \in 1..Len(calls) :
        calls[i].op \notin {"speak_text", "get_ai_response", "generate_content"}

\* C14: when the capture or the recognizer fails in another way than by not
\* understanding the speech (calibration error, listening error, request error,
\* any other recognizer exception), the loop makes no speak_text call and no AI
\* call in that turn and goes back to the prompt
C14_FailureIsSilent ==
    /\ [][ (pc \in {"Calibrating", "Capturing", "Transcribing"} /\ pc' = "Routing")
             => (speech_result'.success <=> speech_result'.error \notin FailureErrors) ]_vars
    /\ []((pc \in {"Routing", "Idle"} /\ speech_result.error \in FailureErrors)
             => (~speech_result.success /\ NoSpeechNoAiCall))
    /\ [][ (pc = "Routing" /\ speech_result.error \in FailureErrors)
             => (InterruptedStep \/ (pc' = "Idle" /\ calls' = calls)) ]_vars

C14_Witness ==
    /\ pc = "Idle" /\ speech_result.error = ERR_API
    /\ calls = <<Call("listen", <<>>, None),
                 Call("recognize_google", <<>>, current_speech_lang_code)>>

\* a listening attempt that times out gives the "No speech detected" result
\* without a recognizer call, and the loop answers it with one speak_text call,
\* the fixed prompt, and no AI call
C15_NoSpeechIsAnswered ==
    /\ [][ (pc = "Capturing" /\ pc' = "Routing"
              /\ speech_result'.error = ERR_NO_SPEECH)
            => speech_result' = [success |-> TRUE, error |-> ERR_NO_SPEECH,
                                 transcription |-> NoneText] ]_vars
    /\ []((pc \in {"Speaking", "Idle"} /\ speech_result.error = ERR_NO_SPEECH)
            => /\ calls = <<Call("listen", <<>>, None),
                            Call("speak_text", MSG_NOT_HEARD, current_gtts_lang)>>
               /\ text_to_speak = MSG_NOT_HEARD)

\* C15 (as claimed): when listening ends with no speech detected the loop
\* makes no recognizer call and no AI call, makes exactly one speak_text call,
\* with the "I didn't hear anything" prompt, and returns to Idle
C15_NoSpeechTurnReturnsToIdle ==
    /\ C15_NoSpeechIsAnswered
    /\ [][ (pc = "Speaking" /\ speech_result.error = ERR_NO_SPEECH /\ pc' /= "Speaking")
            => (pc' = "Idle" \/ interrupted_at' /= None) ]_vars

\* get_ai_response returns from a response that is not blocked and whose
\* reading raised nothing
ReadsUnblocked ==
    /\ pc \in {"Reading", "CallReading"} /\ pc' \in {"Replying", "Returned"}
    /\ response.raises = "none" /\ ~IsBlocked(response)

\* the reply for such a response is the stripped text when the text is not
\* empty, else the stripped join of the parts that have a text when there is
\* such a part, else the "unusual response" reply
C16_ReplySelection ==
    [][ ReadsUnblocked =>
          ai_response' =
             IF response.has_text /\ response.text /= <<>>
               THEN strip(response.text)
             ELSE IF \E i \in 1..Len(response.parts) : response.parts[i].has_text
               THEN strip(join(all_text_parts(response.parts)))
             ELSE MSG_UNUSUAL ]_vars

\* C16 (as claimed): for every response that is not blocked get_ai_response
\* returns the text when it is not empty, else the parts' texts joined by one
\* space, and the "unusual response" reply whenever neither gives a non-empty
\* text: the reply is never the empty string
C16_ReplyNeverEmpty ==
    /\ C16_ReplySelection
    /\ [][ ReadsUnblocked => ai_response' /= <<>> ]_vars

\* C17: at the main prompt no device is held.  The microphone is open only
\* between entering the with block and leaving it, which every outcome of
\* calibration and listening does before the recognizer is called; the mixer
\* is initialised only inside speak_text or after the process has ended
C17_NoDeviceHeldAtIdle ==
    /\ [](pc \in {"Idle", "Dispatch"} => (~mic_open /\ ~mixer_init))
    /\ [](mic_open => pc \in {"Calibrating", "Capturing"})
    /\ [](mixer_init => pc \in {"Speaking", "Terminated"})
    /\ [][ (pc \in {"Calibrating", "Capturing"}
              /\ pc' \notin {"Calibrating", "Capturing"}) => ~mic_open' ]_vars

C17_Witness ==
    /\ pc = "Idle" /\ CountOp("listen") = 1 /\ CountOp("speak_text") = 1
    /\ polled = 1 /\ ~mic_open /\ ~mixer_init

\* every turn comes to an end, the polling loop is left, and the removal loop
\* makes at most three rounds
C18_TurnsEnd ==
    /\ (pc = "Listening") ~> (pc \in {"Idle", "Terminated"})
    /\ (spc = "poll") ~> (spc /= "poll")
    /\ (spc = "remove") ~> (spc /= "remove")
    /\ [](attempt <= RemoveAttempts /\ polled <= MaxBusyPolls)

\* C18 (as claimed): when every call returns and playback stops reporting
\* busy, every turn started at the prompt comes back to the prompt or ends the
\* session, speak_text always leads back to the prompt (unless the user
\* interrupts), the polling loop ends, and the removal loop ends within three
\* rounds
C18_SpeakingLeadsToIdle ==
    /\ C18_TurnsEnd
    /\ (pc = "Speaking") ~> (pc = "Idle" \/ interrupted_at /= None)

\* C19: the loop calls get_ai_response only with the model handle initialised
\* and a transcript that is not empty, so in the loop get_ai_response never
\* takes its "model not available" return nor its "no input" return, and the
\* loop never speaks the reply of either
C19_LoopNeverTakesGuardReturns ==
    /\ [](pc \in {"Responding", "Reading", "Replying"}
             => (model /\ Truthy(recognized_text)))
    /\ [](\A i \in 1..Len(calls) :
             calls[i].op = "get_ai_response" => (model /\ Truthy(calls[i].arg)))
    /\ [](ai_kind \notin {"Unavailable", "NoInput"})
    /\ [](\A i \in 1..Len(calls) :
             calls[i].op = "speak_text"
               => calls[i].arg \notin {MSG_UNAVAILABLE, MSG_NO_INPUT})

C19_Witness ==
    /\ pc = "Idle" /\ model /\ recognized_text = <<" ", "h">>
    /\ ai_kind = "Ok" /\ CountOp("get_ai_response") = 1
    /\ CountOp("speak_text") = 1

\* the recognizer returned without an error and without a text
EmptySuccess ==
    /\ speech_result.success /\ speech_result.error = None
    /\ ~Truthy(speech_result.transcription)

\* C20: when the recognizer succeeds with an empty transcript (success, no
\* text, no error) the loop makes no AI call and no speak_text call in that
\* turn and goes back to the prompt with the current language as it was
C20_EmptyTranscriptIsSkipped ==
    /\ [][ (pc = "Routing" /\ EmptySuccess) =>
             \/ InterruptedStep
             \/ /\ pc' = "Idle"
                /\ calls' = calls
                /\ currentLanguage' = currentLanguage ]_vars
    /\ []((pc \in {"Routing", "Idle"} /\ EmptySuccess)
             => calls = <<Call("listen", <<>>, None),
                          Call("recognize_google", <<>>, current_speech_lang_code)>>)

C20_Witness ==
    /\ pc = "Idle" /\ EmptySuccess /\ speech_result.transcription = <<>>
    /\ NoSpeechNoAiCall /\ CountOp("recognize_google") = 1
    /\ current_speech_lang_code = "kn-IN"

====
